---- MODULE Spec2Model ----
(***************************************************************************)
(* Edge security gateway of artofficialintelligence-dev: the Express       *)
(* request pipeline of createServer (correlation id, CORS gate, HTTPS      *)
(* enforcer, rate limiter, security headers, routes, error rendering) and  *)
(* the Redis-backed rate-limit counters it shares with other gateway       *)
(* processes.                                                              *)
(*                                                                         *)
(* Node runs one handler to completion before the next: a request's        *)
(* synchronous middleware chain is one action, and a request can only be   *)
(* interleaved with others where it awaits I/O (the store round trip of    *)
(* the limiter, the read of index.html).                                   *)
(***************************************************************************)
EXTENDS Integers, Sequences, FiniteSets, TLC

VARIABLES
    builder,    \* createCspDirectives: the arrays it made, the sets it returned
    rawEnv,     \* process.env of the deployment, as validateEnv reads it
    env,        \* per gateway process: the module variable env of the validator
    boot,       \* per gateway process: how far startServer / createServer got
    startError, \* per gateway process: the error startServer or createServer threw
    mode,       \* process.env.NODE_ENV of the deployment
    storeUp,    \* the Redis store accepts connections and commands
    store,      \* Redis keyspace: key name -> [count, ttl]; count = 0: no such key
    hits,       \* history: requests counted per client key in its current window
    limiter,    \* per gateway process: state of createServer / kind of limiter mounted
    retries,    \* per gateway process: failed connection attempts in a row of the limiter's client
    fetchCall,  \* a call of fetchWithRetry in the client: its loop, timers and result
    inflight,   \* requests awaiting I/O
    nextId,     \* source of fresh correlation ids (uuidv4)
    nextNonce,  \* source of fresh nonces (generateNonce)
    last        \* the response written by the step just taken (status 0: none)

vars == <<builder, rawEnv, env, boot, startError, mode, storeUp, store, hits, limiter, retries, fetchCall, inflight, nextId, nextNonce, last>>

----------------------------------------------------------------------------
(* Bounds of the model *)

\* requests issued in one behaviour
MaxRequests == 2
\* requests awaiting I/O at the same time, in the specification of one gateway
MaxInFlight == 1
\* and in the specification of the shared store, where requests race
MaxRacing == 2
\* calls of createCspDirectives in one behaviour
MaxCalls == 2
\* clock ticks that make up one rate-limit window
TicksPerWindow == 2
\* failed connection attempts in a row that are followed
MaxRetries == 2
\* the largest retries option fetchWithRetry is called with
MaxFetchRetries == 2

(* Program constants *)

ProdMax == 100
DevMax == 1000
DenyMax == 0
\* number of formal parameters of errorHandler(err, _req, res)
ErrorHandlerArity == 3
\* Express calls a middleware with an error only if it declares four parameters
ExpressErrorArity == 4

Modes == {"development", "production", "test"}
Instances == {"gw1", "gw2"}
Keys == {"ipA", "ipB"}
Protocols == {"http", "https"}
Routes == {"index", "asset", "report", "missing"}

----------------------------------------------------------------------------
(* Strings are sequences of tokens, so that split, trim and comparison are *)
(* computed as the code computes them.                                     *)

SP == " "
COMMA == ","

RECURSIVE TrimLeft(_), TrimRight(_)
TrimLeft(s) == IF s # <<>> /\ Head(s) = SP THEN TrimLeft(Tail(s)) ELSE s
TrimRight(s) ==
    IF s # <<>> /\ s[Len(s)] = SP THEN TrimRight(SubSeq(s, 1, Len(s) - 1)) ELSE s
\* String.prototype.trim
Trim(s) == TrimLeft(TrimRight(s))

RECURSIVE SplitFrom(_, _, _)
SplitFrom(s, cur, acc) ==
    IF s = <<>> THEN Append(acc, cur)
    ELSE IF Head(s) = COMMA THEN SplitFrom(Tail(s), <<>>, Append(acc, cur))
    ELSE SplitFrom(Tail(s), Append(cur, Head(s)), acc)
\* String.prototype.split(',')
Split(s) == SplitFrom(s, <<>>, <<>>)

MapTrim(list) == [n \in 1..Len(list) |-> Trim(list[n])]

\* process.env.CORS_ORIGIN of the deployment: "https://a.example, https://b.example"
RawCorsOrigin ==
    <<"https://", "a.example", COMMA, SP, "https://", "b.example">>

\* corsOriginSchema: val.split(',').map((s) => s.trim())
ParseCorsOrigin(raw) == MapTrim(Split(raw))

\* Origin headers a client may send; <<>> is a request without the header
NoOrigin == <<>>
Origins ==
    { NoOrigin,
      <<"https://", "a.example">>,
      <<"https://", "a.example", "/">>,
      <<"https://", "evil.example">> }

Includes(list, x) == \E n \in 1..Len(list) : list[n] = x

----------------------------------------------------------------------------
(* The environment validator: validateEnv(raw) of config/environment.ts.   *)
(* A raw configuration gives each variable as the text of process.env, or  *)
(* leaves it undefined.                                                    *)

\* a variable that is not set; for a variable whose text is tokenized, the
\* one-token text Absent
UNDEFINED == "undefined"
Absent == <<UNDEFINED>>

MinPort == 1
MaxPort == 65535
DefaultPort == 3000
MinSecretLen == 32

\* Number(text) of z.coerce.number(), in tenths so that a fraction shows
ToNumber(text) ==
    CASE text = "3000" -> [nan |-> FALSE, tenths |-> 30000]
      [] text = "65535" -> [nan |-> FALSE, tenths |-> 655350]
      [] text = "65536" -> [nan |-> FALSE, tenths |-> 655360]
      [] text = "0" -> [nan |-> FALSE, tenths |-> 0]
      [] text = "" -> [nan |-> FALSE, tenths |-> 0]
      [] text = "3.5" -> [nan |-> FALSE, tenths |-> 35]
      [] OTHER -> [nan |-> TRUE, tenths |-> 0]

ZodIssue(path, message) == [path |-> path, message |-> message]

When(cond, issue) == IF cond THEN <<issue>> ELSE <<>>

\* NODE_ENV: z.enum(['development', 'production', 'test'])
NodeEnvIssues(v) ==
    When(v \notin {"development", "production", "test"},
         ZodIssue("NODE_ENV", IF v = UNDEFINED THEN "Required" ELSE "Invalid enum value"))

\* PORT: z.coerce.number().int().min(1).max(65535).default(3000)
PortIssues(v) ==
    IF v = UNDEFINED THEN <<>>
    ELSE LET num == ToNumber(v)
         IN  IF num.nan THEN <<ZodIssue("PORT", "Expected number, received nan")>>
             ELSE When(num.tenths % 10 # 0, ZodIssue("PORT", "Expected integer, received float"))
                  \o When(num.tenths < 10 * MinPort, ZodIssue("PORT", "Number must be greater than or equal to 1"))
                  \o When(num.tenths > 10 * MaxPort, ZodIssue("PORT", "Number must be less than or equal to 65535"))

PortValue(v) == IF v = UNDEFINED THEN DefaultPort ELSE ToNumber(v).tenths \div 10

\* redisUrlSchema: /^redis(?:s)?:\/\/.+$/
RedisUrlMatches(u) ==
    /\ Len(u) >= 3
    /\ u[1] \in {"redis", "rediss"}
    /\ u[2] = "://"

RedisUrlIssues(u) ==
    IF u = Absent THEN <<ZodIssue("REDIS_URL", "Required")>>
    ELSE When(~RedisUrlMatches(u), ZodIssue("REDIS_URL", "Invalid Redis URL"))

\* new URL(url) does not throw: the text begins with a scheme, and a scheme
\* of the web (http, https, in any case of letters) is followed by a host
SchemeOf(token) ==
    CASE token \in {"https://", "HTTPS://"} -> "https"
      [] token = "http://" -> "http"
      [] token = "app:" -> "app"
      [] OTHER -> ""

UrlParses(url) ==
    /\ url # <<>>
    /\ SchemeOf(Head(url)) # ""
    /\ SchemeOf(Head(url)) \in {"http", "https"} => Len(url) >= 2

RECURSIVE UrlIssues(_)
UrlIssues(list) ==
    IF list = <<>> THEN <<>>
    ELSE When(~UrlParses(Head(list)), ZodIssue("CORS_ORIGIN", "Invalid URL"))
         \o UrlIssues(Tail(list))

\* corsOriginSchema: a string that is not empty, split and trimmed, every
\* entry checked by new URL
CorsOriginIssues(v) ==
    IF v = Absent THEN <<ZodIssue("CORS_ORIGIN", "Required")>>
    ELSE IF v = <<>>
    THEN <<ZodIssue("CORS_ORIGIN", "String must contain at least 1 character(s)")>>
    ELSE UrlIssues(ParseCorsOrigin(v))

\* JWT_SECRET: z.string().min(32, ...)
JwtSecretIssues(v) ==
    IF v = Absent THEN <<ZodIssue("JWT_SECRET", "Required")>>
    ELSE When(Len(v) < MinSecretLen,
              ZodIssue("JWT_SECRET", "JWT_SECRET must be at least 32 characters"))

\* baseSchema.safeParse(raw).error.errors: the issues of every key
SafeParseIssues(raw) ==
    NodeEnvIssues(raw.NODE_ENV) \o PortIssues(raw.PORT)
    \o RedisUrlIssues(raw.REDIS_URL) \o CorsOriginIssues(raw.CORS_ORIGIN)
    \o JwtSecretIssues(raw.JWT_SECRET)

\* u.startsWith('http://'), a prefix test that takes a plaintext origin too
StartsWithHttp(url) == url # <<>> /\ Head(url) \in {"http://", "https://"}

\* u.startsWith('https://')
StartsWithHttps(url) == url # <<>> /\ Head(url) = "https://"

\* the module variable env before loadEnv has run, and the data of a
\* configuration that did not validate
NoEnv ==
    [loaded |-> FALSE, NODE_ENV |-> UNDEFINED, PORT |-> 0, REDIS_URL |-> Absent,
     CORS_ORIGIN |-> <<>>, JWT_SECRET |-> Absent]

NoError == [kind |-> "none", named |-> {}, issues |-> <<>>]

\* validateEnv(raw): the parsed data, or the Error it throws; named is the
\* set of variables the message of the error names
validateEnv(raw) ==
    LET issues == SafeParseIssues(raw)
        list == ParseCorsOrigin(raw.CORS_ORIGIN)
    IN  IF issues # <<>>
        THEN [ok |-> FALSE, data |-> NoEnv,
              error |-> [kind |-> "Error", issues |-> issues,
                         named |-> {issues[n].path : n \in DOMAIN issues}]]
        ELSE IF raw.NODE_ENV = "production"
                /\ \E n \in DOMAIN list : ~StartsWithHttps(list[n])
        THEN [ok |-> FALSE, data |-> NoEnv,
              error |-> [kind |-> "Error",
                         issues |-> <<ZodIssue("", "CORS_ORIGIN must use https URLs in production")>>,
                         named |-> {"CORS_ORIGIN"}]]
        ELSE [ok |-> TRUE,
              data |-> [loaded |-> TRUE, NODE_ENV |-> raw.NODE_ENV,
                        PORT |-> PortValue(raw.PORT), REDIS_URL |-> raw.REDIS_URL,
                        CORS_ORIGIN |-> list, JWT_SECRET |-> raw.JWT_SECRET],
              error |-> NoError]

\* a signing secret of n characters
Secret(n) == [m \in 1..n |-> "a"]

\* the configuration the gateway is deployed with in mode m
BaseRaw(m) ==
    [NODE_ENV |-> m, PORT |-> "3000",
     REDIS_URL |-> <<"redis", "://", "localhost:6379">>,
     CORS_ORIGIN |-> RawCorsOrigin, JWT_SECRET |-> Secret(MinSecretLen)]

\* getAllowedOrigins of process i: env.CORS_ORIGIN
getAllowedOrigins(i) == env[i].CORS_ORIGIN

\* createCorsOptions().origin: !origin || whitelist.includes(origin)
CorsAllows(i, origin) == origin = NoOrigin \/ Includes(getAllowedOrigins(i), origin)

----------------------------------------------------------------------------
(* Text that carries a nonce: the Content-Security-Policy source lists and *)
(* the HTML entry document are sequences of tokens; a token is a piece of  *)
(* text, or a nonce value.                                                 *)

Tok(s) == [s |-> s, n |-> 0]
NonceTok(n) == [s |-> "nonce", n |-> n]

\* the nonce values a text holds
NoncesIn(text) == {text[m].n : m \in {m \in DOMAIN text : text[m].s = "nonce"}}

\* a caller of createCspDirectives that passes no env / no reportUri option
NoOpt == "undefined"

\* the object literal of createCspDirectives: every call evaluates it anew
DirectivesLiteral(nonce) ==
    [defaultSrc |-> <<Tok("'self'")>>,
     scriptSrc |-> <<Tok("'self'"), NonceTok(nonce), Tok("https://cdn.jsdelivr.net"),
                     Tok("https://plausible.io")>>,
     styleSrc |-> <<Tok("'self'"), NonceTok(nonce),
                    Tok("https://fonts.googleapis.com")>>,
     fontSrc |-> <<Tok("'self'"), Tok("https://fonts.gstatic.com")>>,
     imgSrc |-> <<Tok("'self'"), Tok("data:"), Tok("https:")>>,
     connectSrc |-> <<Tok("'self'"), Tok("https://api.artofficial-intelligence.com")>>,
     objectSrc |-> <<Tok("'none'")>>,
     baseUri |-> <<Tok("'self'")>>,
     formAction |-> <<Tok("'self'")>>,
     reportUri |-> <<>>]

\* opts.env ?? process.env.NODE_ENV ?? 'production'
CspEnv(optsEnv, processEnv) ==
    IF optsEnv # NoOpt THEN optsEnv
    ELSE IF processEnv # NoOpt THEN processEnv
    ELSE "production"

\* a builder that allows WebSocket connections in every mode
createCspDirectivesWs(nonce, optsEnv, optsReportUri, processEnv) ==
    LET directives == DirectivesLiteral(nonce)
        pushed == [directives EXCEPT !.connectSrc = Append(@, Tok("ws:"))]
    IN  IF optsReportUri # NoOpt /\ optsReportUri # ""
        THEN [pushed EXCEPT !.reportUri = <<Tok(optsReportUri)>>]
        ELSE pushed

\* createCspDirectives(nonce, opts), called in a process whose
\* process.env.NODE_ENV is processEnv: the value it returns
createCspDirectives(nonce, optsEnv, optsReportUri, processEnv) ==
    LET directives == DirectivesLiteral(nonce)
        pushed == IF CspEnv(optsEnv, processEnv) # "production"
                  THEN [directives EXCEPT !.connectSrc = Append(@, Tok("ws:"))]
                  ELSE directives
    IN  IF optsReportUri # NoOpt /\ optsReportUri # ""
        THEN [pushed EXCEPT !.reportUri = <<Tok(optsReportUri)>>]
        ELSE pushed

\* The same call step by step, on the heap of the process: arrays are
\* objects with an address (their index in the heap), and a directive set
\* holds the addresses of its arrays.
DirectiveNames ==
    <<"defaultSrc", "scriptSrc", "styleSrc", "fontSrc", "imgSrc", "connectSrc",
      "objectSrc", "baseUri", "formAction">>

Position(name) == CHOOSE n \in DOMAIN DirectiveNames : DirectiveNames[n] = name

\* arrays that are made once, when the module is loaded, and shared by
\* every call
ModuleArray(name, heap) == Position(name)

\* the array literal of a directive, evaluated by the call: a new array
LiteralArray(name, heap) == Len(heap) + Position(name)

\* the addresses of the arrays of the set a call on this heap builds
Addresses(heap) ==
    [defaultSrc |-> LiteralArray("defaultSrc", heap),
     scriptSrc |-> LiteralArray("scriptSrc", heap),
     styleSrc |-> LiteralArray("styleSrc", heap),
     fontSrc |-> LiteralArray("fontSrc", heap),
     imgSrc |-> LiteralArray("imgSrc", heap),
     connectSrc |-> LiteralArray("connectSrc", heap),
     objectSrc |-> LiteralArray("objectSrc", heap),
     baseUri |-> LiteralArray("baseUri", heap),
     formAction |-> LiteralArray("formAction", heap)]

\* the heap once the object literal is evaluated: the arrays that are new
\* hold the sources of the literal
EvalLiteral(heap, nonce) ==
    LET lit == DirectivesLiteral(nonce)
    IN  IF Addresses(heap).formAction > Len(heap)
        THEN heap \o <<lit.defaultSrc, lit.scriptSrc, lit.styleSrc, lit.fontSrc,
                       lit.imgSrc, lit.connectSrc, lit.objectSrc, lit.baseUri,
                       lit.formAction>>
        ELSE heap

\* directives.connectSrc.push('ws:')
Push(heap, a, tok) ==
    SubSeq(heap, 1, a - 1) \o <<Append(heap[a], tok)>>
        \o SubSeq(heap, a + 1, Len(heap))

\* the heap when createCspDirectives returns
HeapAfterCall(heap, nonce, optsEnv, optsReportUri, processEnv) ==
    LET h1 == EvalLiteral(heap, nonce)
        h2 == IF CspEnv(optsEnv, processEnv) # "production"
              THEN Push(h1, Addresses(heap).connectSrc, Tok("ws:"))
              ELSE h1
    IN  IF optsReportUri # NoOpt /\ optsReportUri # ""
        THEN Append(h2, <<Tok(optsReportUri)>>)
        ELSE h2

\* the directive set a call returned, read through its addresses
Deref(heap, addr, reportAddr) ==
    [defaultSrc |-> heap[addr.defaultSrc], scriptSrc |-> heap[addr.scriptSrc],
     styleSrc |-> heap[addr.styleSrc], fontSrc |-> heap[addr.fontSrc],
     imgSrc |-> heap[addr.imgSrc], connectSrc |-> heap[addr.connectSrc],
     objectSrc |-> heap[addr.objectSrc], baseUri |-> heap[addr.baseUri],
     formAction |-> heap[addr.formAction],
     reportUri |-> IF reportAddr = 0 THEN <<>> ELSE heap[reportAddr]]

\* no Content-Security-Policy header
NoCsp ==
    [defaultSrc |-> <<>>, scriptSrc |-> <<>>, styleSrc |-> <<>>, fontSrc |-> <<>>,
     imgSrc |-> <<>>, connectSrc |-> <<>>, objectSrc |-> <<>>, baseUri |-> <<>>,
     formAction |-> <<>>, reportUri |-> <<>>]

\* the policy Express's default error handler sets: default-src 'none'
FinalhandlerCsp == [NoCsp EXCEPT !.defaultSrc = <<Tok("'none'")>>]

\* the nonces a Content-Security-Policy header names
HeaderNonces(csp) == NoncesIn(csp.scriptSrc) \cup NoncesIn(csp.styleSrc)

\* dist/index.html: the placeholder stands where a nonce attribute goes
PLACEHOLDER == Tok("__CSP_NONCE__")
IndexHtml ==
    <<Tok("<!DOCTYPE html><script nonce=\""), PLACEHOLDER, Tok("\"></script>"),
      Tok("<style nonce=\""), PLACEHOLDER, Tok("\"></style>")>>

\* html.split('__CSP_NONCE__').join(nonce)
SplitJoin(html, nonce) ==
    [m \in DOMAIN html |-> IF html[m] = PLACEHOLDER THEN NonceTok(nonce) ELSE html[m]]

----------------------------------------------------------------------------
(* Requests and responses.  One record follows a request through the      *)
(* pipeline: what the client sent, res.locals, the response headers set   *)
(* so far, and, once answered, the status and body.                       *)

NoBody ==
    [kind |-> "none", success |-> "absent", message |-> "", code |-> "",
     timestamp |-> "absent", cid |-> 0, stack |-> FALSE, html |-> <<>>]

NoRequest ==
    [id |-> 0, inst |-> "", key |-> "", origin |-> NoOrigin, proto |-> "",
     route |-> "", url |-> <<>>, payload |-> [ctype |-> "", wellFormed |-> TRUE], pc |-> "none", trace |-> <<>>, count |-> 0, ord |-> 0,
     cid |-> 0, nonce |-> 0, hdrs |-> {}, xcid |-> 0, csp |-> NoCsp,
     location |-> <<>>, status |-> 0, body |-> NoBody,
     renderer |-> ""]

\* req.originalUrl of the requests sent to a route: path and query
OriginalUrl(rt) ==
    CASE rt = "index" -> <<"/">>
      [] rt = "asset" -> <<"/assets/app.js", "?v=1">>
      [] rt = "report" -> <<"/csp-report">>
      [] OTHER -> <<"/missing", "?q=a&r=b">>

\* req.headers.host
Host == "www.example"

\* a request without a body
NoPayload == [ctype |-> "", wellFormed |-> TRUE]

\* what a client may POST to /csp-report: the content type, and whether the
\* body is well-formed JSON
Payloads ==
    [ctype : {"application/csp-report", "application/json", "text/plain"},
     wellFormed : BOOLEAN]

\* the report a browser sends
BrowserReport == [ctype |-> "application/csp-report", wellFormed |-> TRUE]

\* what a browser sends with a request of a route
SentWith(rt) == IF rt = "report" THEN BrowserReport ELSE NoPayload

NewRequest(i, k, o, p, rt, pl) ==
    [NoRequest EXCEPT !.inst = i, !.key = k, !.origin = o, !.proto = p,
                      !.route = rt, !.url = OriginalUrl(rt), !.payload = pl,
                      !.pc = "new"]

Ran(r, stage) == [r EXCEPT !.trace = Append(@, stage)]

\* class HttpError: status defaults to 500, code is optional ("" when absent)
HttpError(message, status, code) ==
    [http |-> TRUE, message |-> message, status |-> status, code |-> code]

\* a plain Error, as thrown by the redis client
PlainError(message) ==
    [http |-> FALSE, message |-> message, status |-> 0, code |-> ""]

\* createErrorResponse(err, correlationId)
createErrorResponse(err, correlationId) ==
    LET status == IF err.http THEN err.status ELSE 500
        message == IF status >= 500 THEN "Internal server error" ELSE err.message
    IN  [kind |-> "envelope", success |-> "false", message |-> message,
         code |-> IF err.http /\ err.code # "" THEN err.code ELSE "",
         timestamp |-> "iso", cid |-> correlationId, stack |-> FALSE,
         html |-> <<>>]

\* res.status(s).json(body)
SendJson(r, status, body) ==
    [r EXCEPT !.status = status, !.body = body, !.pc = "done",
              !.hdrs = @ \cup {"Content-Type"}]

\* errorHandler(err, _req, res); fresh is the uuid used when res.locals has none
errorHandler(err, r, fresh) ==
    LET id == IF r.cid # 0 THEN r.cid ELSE fresh
        httpErr == IF err.http THEN err ELSE HttpError(err.message, 500, "")
        body == createErrorResponse(httpErr, id)
    IN  [SendJson(Ran(r, "errorHandler"), httpErr.status, body)
            EXCEPT !.renderer = "errorHandler"]

\* Express's default handler for an error no middleware took: the status of
\* the error (500 when it has none), an HTML page that shows the stack
\* outside production, the headers already set kept, and its own CSP
finalhandler(err, r) ==
    LET status == IF err.status >= 400 /\ err.status <= 599 THEN err.status ELSE 500
    IN  [Ran(r, "finalhandler") EXCEPT
            !.status = status,
            !.body = [NoBody EXCEPT !.kind = "html-error",
                                    !.message = IF mode = "production"
                                                THEN "status text" ELSE err.message,
                                    !.stack = (mode # "production")],
            !.hdrs = @ \cup {"Content-Security-Policy", "X-Content-Type-Options",
                             "Content-Type"},
            !.csp = FinalhandlerCsp,
            !.renderer = "finalhandler",
            !.pc = "done"]

\* next(err) in createServer's app: app.use(errorHandler) is the only
\* middleware registered for errors; Express hands it the error only if the
\* function declares four parameters, and falls back to its default handler
NextError(err, r) ==
    IF ErrorHandlerArity = ExpressErrorArity
    THEN errorHandler(err, r, nextId)
    ELSE finalhandler(err, r)

----------------------------------------------------------------------------
(* fetchWithRetry(url, { timeout, retries }) of the client's lib/api: one  *)
(* call, from its first attempt to the promise it settles.  results lists  *)
(* how the attempts made so far ended; timers is the set of attempts whose *)
(* setTimeout is still pending.                                            *)

NoFetch ==
    [pc |-> "idle", retries |-> 0, attempt |-> 0, timers |-> {}, aborted |-> FALSE,
     results |-> <<>>, settled |-> "none", error |-> ""]

\* how an awaited fetch can end while its signal is not aborted: a response
\* with ok, a response without, or a rejection (network error)
FetchResults == {"ok", "notOk", "networkError"}

\* a clearTimeout that leaves the timer pending
keepTimeout(timers, id) == timers

\* clearTimeout(id)
clearTimeout(timers, id) == timers \ {id}

\* the message of the ApiError thrown when the last attempt failed
LastError(result) ==
    CASE result = "notOk" -> "Request failed with status"
      [] result = "AbortError" -> "Request timed out"
      [] OTHER -> "error.message"

\* one turn of the for loop: a controller, its timer, and the fetch
StartAttempt(call, attempt) ==
    [call EXCEPT !.pc = "await", !.attempt = attempt, !.aborted = FALSE,
                 !.timers = @ \cup {attempt}]

\* the code behind await fetch(...) when the fetch ended as result: the try
\* block or the catch block, and the loop up to the next await
AfterFetch(call, result) ==
    LET cleared == [call EXCEPT !.timers = clearTimeout(@, call.attempt),
                                !.results = Append(@, result)]
    IN  IF result = "ok"
        THEN [cleared EXCEPT !.pc = "done", !.settled = "response"]
        ELSE IF call.attempt = call.retries
        THEN [cleared EXCEPT !.pc = "done", !.settled = "ApiError",
                             !.error = LastError(result)]
        ELSE IF call.attempt + 1 <= call.retries
        THEN StartAttempt(cleared, call.attempt + 1)
        ELSE [cleared EXCEPT !.pc = "done", !.settled = "ApiError",
                             !.error = "Unknown error"]

----------------------------------------------------------------------------
(* The counter store: Redis keys with a count and a time to live.  ttl is *)
(* in ticks; -1 is a key without expiry (PTTL's answer for it).           *)

NoKey == [count |-> 0, ttl |-> 0]

Get(st, name) == IF name \in DOMAIN st THEN st[name] ELSE NoKey

\* a key name that differs from one gateway process to the next
StoreKeyPerProcess(i, k) == <<i, k>>

\* a key name that is the same for every client
StoreKeyAnyClient(i, k) == <<"rl:">>

\* RedisStore's key for a client: its default prefix and the client key;
\* every gateway process builds the same name
StoreKey(i, k) == <<"rl:", k>>

\* an increment whose write is lost
IncrLost(n) == n

\* INCR
Incr(n) == n + 1

\* a script that renews the time to live at every increment
IncrementAndRenew(st, name) ==
    (name :> [count |-> Incr(Get(st, name).count), ttl |-> TicksPerWindow]) @@ st

\* an increment that leaves the time to live to a later command, which the
\* gateway did not get to send
IncrementOnly(st, name) ==
    (name :> [count |-> Incr(Get(st, name).count),
              ttl |-> IF name \in DOMAIN st THEN st[name].ttl ELSE -1]) @@ st

\* RedisStore.increment: one script the store runs atomically: INCR the key,
\* and give it the window as time to live if it has none (it is new)
IncrementScript(st, name) ==
    LET totalHits == Incr(Get(st, name).count)
        timeToExpire == IF name \in DOMAIN st THEN st[name].ttl ELSE -1
    IN  (name :> [count |-> totalHits,
                  ttl |-> IF timeToExpire <= 0 THEN TicksPerWindow
                          ELSE timeToExpire]) @@ st

\* Redis expires keys: one tick passes
Expire(st) ==
    LET live == {n \in DOMAIN st : st[n].ttl # 1}
    IN  [n \in live |-> IF st[n].ttl > 1 THEN [st[n] EXCEPT !.ttl = @ - 1]
                        ELSE st[n]]

\* history of the window of a client key: requests counted, ticks left
NoWindow == [n |-> 0, left |-> 0]

CountHit(w) ==
    IF w.n = 0 THEN [n |-> 1, left |-> TicksPerWindow] ELSE [w EXCEPT !.n = @ + 1]

TickWindow(w) ==
    IF w.left <= 1 THEN NoWindow ELSE [w EXCEPT !.left = @ - 1]

----------------------------------------------------------------------------
(* The middleware of createServer, in the order app.use mounts it *)

\* requestIdMiddleware
requestIdMiddleware(r, id) ==
    Ran([r EXCEPT !.id = id, !.cid = id, !.xcid = id,
                  !.hdrs = @ \cup {"X-Correlation-Id"}], "requestId")

\* cors(createCorsOptions()): the origin callback's verdict
CorsReject == HttpError("Not allowed by CORS", 403, "INVALID_ORIGIN")

\* an enforcer that redirects plaintext requests in every mode
MustRedirectAnyMode(proto) == proto = "http"

\* enforceHttps: the condition under which it redirects
MustRedirect(proto) == mode = "production" /\ proto = "http"

\* res.redirect(301, `https://${req.headers.host}${req.originalUrl}`)
Redirect(r) ==
    [r EXCEPT !.status = 301, !.location = <<"https://", Host>> \o r.url,
              !.hdrs = @ \cup {"Location"}, !.pc = "done"]

\* rateLimit({ max }) of setupRateLimiter
Max == IF mode = "production" THEN ProdMax ELSE DevMax

\* a limiter that already denies the request that reaches the ceiling
ExceedsFromCeiling(totalHits, max) == totalHits >= max

\* express-rate-limit: the request is over the limit
Exceeds(totalHits, max) == totalHits > max

\* a deny-all limiter that limits nothing: the request runs on unanswered
DenyHandlerOpen(r) == [r EXCEPT !.pc = "reply", !.count = DenyMax]

\* handler of denyMiddleware's limiter, which a ceiling of 0 makes the
\* answer to every request
DenyHandler(r) ==
    [SendJson(r, 503,
              createErrorResponse(HttpError("Service unavailable", 503,
                                            "REDIS_UNAVAILABLE"), r.cid))
        EXCEPT !.renderer = "createErrorResponse"]

\* handler of the store-backed limiter
LimitHandler(r) ==
    [SendJson([r EXCEPT !.hdrs = @ \cup {"Retry-After"}], 429,
              createErrorResponse(HttpError("Too many requests", 429,
                                            "RATE_LIMIT_EXCEEDED"), r.cid))
        EXCEPT !.renderer = "createErrorResponse"]

\* securityMiddleware: a fresh nonce in res.locals, then helmet's headers,
\* the policy built by createCspDirectives(res.locals.nonce)
securityMiddleware(r, nonce) ==
    Ran([r EXCEPT !.nonce = nonce,
                  !.csp = createCspDirectives(nonce, NoOpt, NoOpt, mode),
                  !.hdrs = @ \cup {"Content-Security-Policy", "Referrer-Policy",
                                   "X-Permitted-Cross-Domain-Policies",
                                   "Cross-Origin-Opener-Policy",
                                   "Permissions-Policy", "X-Frame-Options",
                                   "X-Content-Type-Options",
                                   "Strict-Transport-Security"}], "security")

\* express.json({ type: ['json', 'application/csp-report'] })
ParsedTypes == {"application/json", "application/csp-report"}

\* the error body-parser raises for a body that is not JSON: status 400
ParseError ==
    [http |-> FALSE, message |-> "Unexpected token in JSON", status |-> 400,
     code |-> ""]

\* a parser that takes application/json alone and refuses everything else
BodyParsesJsonOnly(pl) == pl.ctype = "application/json" /\ pl.wellFormed

\* express.json lets the request through: it leaves a body of another type
\* alone, and parses a body of its types
BodyParses(pl) == pl.ctype \notin ParsedTypes \/ pl.wellFormed

\* POST /csp-report: the parser, then res.status(204).end()
ReportStatus == 204
CspReport(r) ==
    IF BodyParses(r.payload)
    THEN [Ran(r, "report") EXCEPT !.status = ReportStatus, !.pc = "done"]
    ELSE NextError(ParseError, Ran(r, "report"))

\* the routes and what follows them: GET / starts reading index.html,
\* POST /csp-report answers 204, express.static serves a file that exists,
\* anything else reaches the last middleware, which raises Not Found
Dispatch(r) ==
    CASE r.route = "index" -> [Ran(r, "index") EXCEPT !.pc = "read"]
      [] r.route = "report" -> CspReport(r)
      [] r.route = "asset" ->
            [Ran(r, "static") EXCEPT !.status = 200, !.pc = "done",
                                     !.body = [NoBody EXCEPT !.kind = "asset"],
                                     !.hdrs = @ \cup {"Content-Type"}]
      [] OTHER -> NextError(HttpError("Not Found", 404, ""), Ran(r, "notFound"))

\* a chain that mounts the limiter in front of the gates
ReceiveLimiterFirst(r0, id) ==
    [Ran(requestIdMiddleware(r0, id), "limiter") EXCEPT !.pc = "limiter"]

\* the synchronous chain a new request runs: correlation id, CORS gate,
\* HTTPS enforcer, and the limiter up to the command it sends to the store
Receive(r0, id) ==
    LET r1 == Ran(requestIdMiddleware(r0, id), "cors")
    IN  IF ~CorsAllows(r1.inst, r1.origin) THEN NextError(CorsReject, r1)
        ELSE LET r2 == Ran(r1, "https")
             IN  IF MustRedirect(r2.proto) THEN Redirect(r2)
                 ELSE LET r3 == Ran(r2, "limiter")
                      IN  IF limiter[r3.inst] = "deny" THEN DenyHandler(r3)
                          ELSE [r3 EXCEPT !.pc = "limiter"]

\* the limiter's verdict on the store's reply, and the chain after it
AfterLimiter(r, nonce) ==
    LET r1 == [r EXCEPT !.hdrs = @ \cup {"RateLimit-Limit", "RateLimit-Remaining",
                                         "RateLimit-Reset"}]
    IN  IF Exceeds(r1.count, Max) THEN LimitHandler(r1)
        ELSE Dispatch(securityMiddleware(r1, nonce))

\* a handler that takes the nonce from a variable of the process, which
\* holds the nonce generated last
LatestNonce(r) == nextNonce - 1

\* res.locals.nonce, as the handler of GET / reads it
LocalsNonce(r) == r.nonce

\* the handler of GET / once the read of index.html has ended
ServeIndex(r, readOk) ==
    IF readOk
    THEN [r EXCEPT !.status = 200, !.pc = "done",
                   !.body = [NoBody EXCEPT !.kind = "html",
                                           !.html = SplitJoin(IndexHtml, LocalsNonce(r))],
                   !.hdrs = @ \cup {"Content-Type"}]
    ELSE NextError(HttpError("Failed to load index", 500, ""), r)

----------------------------------------------------------------------------
(* Actions *)

Answer(r, res) ==
    /\ last' = res
    /\ inflight' = inflight \ {r}

Continue(r, res) ==
    IF res.pc = "done" THEN Answer(r, res)
    ELSE /\ inflight' = (inflight \ {r}) \cup {res}
         /\ last' = NoRequest

\* createServer has its limiter and returns the app: startServer, when it
\* is the caller, goes on to app.listen in the same turn
Returned(b) == IF b = "starting" THEN "listening" ELSE "app"

\* the default value of startServer's parameter, port = env.PORT, is
\* evaluated when the call begins: it can be read once a loadEnv of the
\* process has assigned env
PortKnown(i, portArg) == portArg # NoOpt \/ env[i].loaded

\* the error of reading a property of undefined
TypeError == [kind |-> "TypeError", named |-> {}, issues |-> <<>>]

\* a start that goes on whatever the validator found
ValidationIgnored(res) == TRUE

\* loadEnv() returns: validateEnv did not throw
Validated(res) == res.ok

\* loadEnv() and the synchronous part of createServer behind it, up to the
\* await of setupRateLimiter()
LoadAndCreate(i, caller) ==
    LET res == validateEnv(rawEnv)
    IN  IF Validated(res)
        THEN /\ env' = [env EXCEPT ![i] = res.data]
             /\ boot' = [boot EXCEPT ![i] = caller]
             /\ limiter' = [limiter EXCEPT ![i] = "off"]
             /\ startError' = [startError EXCEPT ![i] = NoError]
        ELSE /\ boot' = [boot EXCEPT ![i] = "failed"]
             /\ startError' = [startError EXCEPT ![i] = res.error]
             /\ UNCHANGED <<env, limiter>>

\* startServer(port): the default of port, loadEnv(), then createServer(),
\* which runs loadEnv() again and mounts the middleware up to the limiter
StartServer(i, portArg) ==
    /\ boot[i] \in {"idle", "app"}
    /\ IF PortKnown(i, portArg)
       THEN LoadAndCreate(i, "starting")
       ELSE /\ boot' = [boot EXCEPT ![i] = "failed"]
            /\ startError' = [startError EXCEPT ![i] = TypeError]
            /\ UNCHANGED <<env, limiter>>
    /\ last' = NoRequest
    /\ UNCHANGED <<builder, rawEnv, fetchCall, retries, mode, storeUp, store, hits, inflight, nextId, nextNonce>>

\* createServer(distDir), called by a program that serves the app itself
CreateServer(i) ==
    /\ boot[i] = "idle"
    /\ LoadAndCreate(i, "creating")
    /\ last' = NoRequest
    /\ UNCHANGED <<builder, rawEnv, fetchCall, retries, mode, storeUp, store, hits, inflight, nextId, nextNonce>>

\* a call createCspDirectives(nonce, { env, reportUri }) in the process
CallBuilder(nonce, optsEnv, optsReportUri) ==
    /\ Len(builder.returned) < MaxCalls
    /\ LET before == builder.heap
           after == HeapAfterCall(before, nonce, optsEnv, optsReportUri,
                                  builder.nodeEnv)
           reportAddr == IF Len(after) > Len(EvalLiteral(before, nonce))
                         THEN Len(after) ELSE 0
           call == [nonce |-> nonce, mode |-> CspEnv(optsEnv, builder.nodeEnv),
                    reportUri |-> optsReportUri,
                    addr |-> Addresses(before), reportAddr |-> reportAddr,
                    value |-> Deref(after, Addresses(before), reportAddr)]
       IN  builder' = [heap |-> after,
                       returned |-> Append(builder.returned, call),
                       nodeEnv |-> builder.nodeEnv]
    /\ last' = NoRequest
    /\ UNCHANGED <<rawEnv, fetchCall, retries, env, boot, startError, mode, storeUp, store, hits,
                   limiter, inflight, nextId, nextNonce>>

\* process.env.NODE_ENV is set to another value, or deleted
SetNodeEnv(v) ==
    /\ builder.nodeEnv # v
    /\ builder' = [heap |-> builder.heap, returned |-> builder.returned,
                   nodeEnv |-> v]
    /\ last' = NoRequest
    /\ UNCHANGED <<rawEnv, fetchCall, retries, env, boot, startError, mode, storeUp, store, hits,
                   limiter, inflight, nextId, nextNonce>>

\* setupRateLimiter up to its health check: checkConnection(url) decides
\* between the deny-all limiter and connecting the limiter's own client
SetupCheck(i) ==
    /\ boot[i] \in {"starting", "creating"}
    /\ limiter[i] = "off"
    /\ limiter' = [limiter EXCEPT ![i] = IF storeUp THEN "connecting" ELSE "deny"]
    /\ boot' = IF storeUp THEN boot ELSE [boot EXCEPT ![i] = Returned(@)]
    /\ last' = NoRequest
    /\ UNCHANGED <<builder, rawEnv, fetchCall, retries, env, startError, mode, storeUp, store, hits, inflight, nextId, nextNonce>>

\* await client.connect() returns and createServer mounts the store-backed
\* limiter; the client's reconnectStrategy keeps it trying until then
SetupConnect(i) ==
    /\ limiter[i] = "connecting"
    /\ storeUp
    /\ limiter' = [limiter EXCEPT ![i] = "store"]
    /\ boot' = [boot EXCEPT ![i] = Returned(@)]
    /\ retries' = [retries EXCEPT ![i] = 0]
    /\ last' = NoRequest
    /\ UNCHANGED <<builder, rawEnv, fetchCall, env, startError, mode, storeUp, store, hits, inflight, nextId, nextNonce>>

\* newClient's reconnectStrategy: (r) => Math.min(r * 100, 2000), the wait
\* in milliseconds before attempt r + 1
DelayStep == 100
MaxDelay == 2000
reconnectStrategy(r) == IF r * DelayStep < MaxDelay THEN r * DelayStep ELSE MaxDelay

\* node-redis connects again when the strategy returns a number, and gives
\* up when it returns an Error
ConnectsAgain(r) == reconnectStrategy(r) \in Nat

\* await client.connect() while the store is unreachable: the attempt fails,
\* the 'error' listener logs it, and the client waits for the next attempt
ConnectFails(i) ==
    /\ limiter[i] = "connecting"
    /\ ~storeUp
    /\ retries[i] < MaxRetries
    /\ ConnectsAgain(retries[i])
    /\ retries' = [retries EXCEPT ![i] = @ + 1]
    /\ last' = NoRequest
    /\ UNCHANGED <<builder, rawEnv, fetchCall, env, boot, startError, mode, storeUp, store, hits, limiter, inflight, nextId, nextNonce>>

\* the connection of the mounted limiter's client is lost: the client tries
\* to connect again, by the same strategy
Reconnect(i) ==
    /\ limiter[i] = "store"
    /\ ~storeUp
    /\ retries[i] < MaxRetries
    /\ ConnectsAgain(retries[i])
    /\ retries' = [retries EXCEPT ![i] = @ + 1]
    /\ last' = NoRequest
    /\ UNCHANGED <<builder, rawEnv, fetchCall, env, boot, startError, mode, storeUp, store, hits, limiter, inflight, nextId, nextNonce>>

\* an attempt of the mounted limiter's client succeeds
Reconnected(i) ==
    /\ limiter[i] = "store"
    /\ storeUp
    /\ retries[i] > 0
    /\ retries' = [retries EXCEPT ![i] = 0]
    /\ last' = NoRequest
    /\ UNCHANGED <<builder, rawEnv, fetchCall, env, boot, startError, mode, storeUp, store, hits, limiter, inflight, nextId, nextNonce>>

\* fetchWithRetry(url, { retries }) is called: the loop begins
CallFetch(r) ==
    /\ fetchCall.pc = "idle"
    /\ fetchCall' = IF 0 <= r
                    THEN StartAttempt([NoFetch EXCEPT !.retries = r], 0)
                    ELSE [NoFetch EXCEPT !.retries = r, !.pc = "done",
                                         !.settled = "ApiError",
                                         !.error = "Unknown error"]
    /\ last' = NoRequest
    /\ UNCHANGED <<builder, rawEnv, retries, env, boot, startError, mode, storeUp, store, hits, limiter, inflight, nextId, nextNonce>>

\* the awaited fetch ends before the timeout
FetchSettles(result) ==
    /\ fetchCall.pc = "await"
    /\ ~fetchCall.aborted
    /\ fetchCall' = AfterFetch(fetchCall, result)
    /\ last' = NoRequest
    /\ UNCHANGED <<builder, rawEnv, retries, env, boot, startError, mode, storeUp, store, hits, limiter, inflight, nextId, nextNonce>>

\* the timer of the attempt fires: controller.abort()
TimerFires ==
    /\ fetchCall.pc = "await"
    /\ fetchCall.attempt \in fetchCall.timers
    /\ fetchCall' = [fetchCall EXCEPT !.timers = @ \ {fetchCall.attempt},
                                      !.aborted = TRUE]
    /\ last' = NoRequest
    /\ UNCHANGED <<builder, rawEnv, retries, env, boot, startError, mode, storeUp, store, hits, limiter, inflight, nextId, nextNonce>>

\* the aborted fetch rejects with an AbortError
FetchAborts ==
    /\ fetchCall.pc = "await"
    /\ fetchCall.aborted
    /\ fetchCall' = AfterFetch(fetchCall, "AbortError")
    /\ last' = NoRequest
    /\ UNCHANGED <<builder, rawEnv, retries, env, boot, startError, mode, storeUp, store, hits, limiter, inflight, nextId, nextNonce>>

\* the gateway process ends and is started again with the same
\* configuration, up to the health check of setupRateLimiter; what it had
\* in flight is gone with it
Stop(i) ==
    /\ limiter[i] # "off"
    /\ limiter' = [limiter EXCEPT ![i] = "off"]
    /\ boot' = [boot EXCEPT ![i] = "starting"]
    /\ inflight' = {r \in inflight : r.inst # i}
    /\ retries' = [retries EXCEPT ![i] = 0]
    /\ last' = NoRequest
    /\ UNCHANGED <<builder, rawEnv, fetchCall, env, startError, mode, storeUp, store, hits, nextId, nextNonce>>

\* a request arrives at a listening gateway and runs to its first await
Arrive(i, k, o, p, rt, pl, cap) ==
    /\ boot[i] \in {"listening", "app"}
    /\ limiter[i] \in {"store", "deny"}
    /\ nextId <= MaxRequests
    /\ Cardinality(inflight) < cap
    /\ LET res == Receive(NewRequest(i, k, o, p, rt, pl), nextId)
       IN  IF res.pc = "done"
           THEN last' = res /\ UNCHANGED inflight
           ELSE inflight' = inflight \cup {res} /\ last' = NoRequest
    /\ nextId' = nextId + 1
    /\ UNCHANGED <<builder, rawEnv, fetchCall, retries, env, boot, startError, mode, storeUp, store, hits, limiter, nextNonce>>

\* the store runs the increment a limiter sent for request r
StoreExec(r) ==
    /\ r.pc = "limiter"
    /\ storeUp
    /\ LET name == StoreKey(r.inst, r.key)
       IN  /\ store' = IncrementScript(store, name)
           /\ hits' = [hits EXCEPT ![r.key] = CountHit(@)]
           /\ inflight' = (inflight \ {r}) \cup
                  {[r EXCEPT !.pc = "reply", !.count = store'[name].count,
                             !.ord = hits'[r.key].n]}
    /\ last' = NoRequest
    /\ UNCHANGED <<builder, rawEnv, fetchCall, retries, env, boot, startError, mode, storeUp, limiter, nextId, nextNonce>>

\* the reply reaches the gateway: the limiter decides, and an allowed request
\* runs on through securityMiddleware to its route
Reply(r) ==
    /\ r.pc = "reply"
    /\ LET res == AfterLimiter(r, nextNonce)
       IN  /\ Continue(r, res)
           /\ nextNonce' = IF res.nonce # 0 THEN nextNonce + 1 ELSE nextNonce
    /\ UNCHANGED <<builder, rawEnv, fetchCall, retries, env, boot, startError, mode, storeUp, store, hits, limiter, nextId>>

\* the store is unreachable and the client rejects the command of r: the
\* limiter passes the error to next
StoreError(r) ==
    /\ r.pc \in {"limiter", "reply"}
    /\ ~storeUp
    /\ Answer(r, NextError(PlainError("Socket closed unexpectedly"), r))
    /\ UNCHANGED <<builder, rawEnv, fetchCall, retries, env, boot, startError, mode, storeUp, store, hits, limiter, nextId, nextNonce>>

\* fs.readFile of index.html ends, with the file or with an error
ReadIndex(r, readOk) ==
    /\ r.pc = "read"
    /\ Answer(r, ServeIndex(r, readOk))
    /\ UNCHANGED <<builder, rawEnv, fetchCall, retries, env, boot, startError, mode, storeUp, store, hits, limiter, nextId, nextNonce>>

StoreDown ==
    /\ storeUp
    /\ storeUp' = FALSE
    /\ last' = NoRequest
    /\ UNCHANGED <<builder, rawEnv, fetchCall, retries, env, boot, startError, mode, store, hits, limiter, inflight, nextId, nextNonce>>

StoreUp ==
    /\ ~storeUp
    /\ storeUp' = TRUE
    /\ last' = NoRequest
    /\ UNCHANGED <<builder, rawEnv, fetchCall, retries, env, boot, startError, mode, store, hits, limiter, inflight, nextId, nextNonce>>

\* time passes: keys whose time to live has run out are gone
Tick ==
    /\ store' = Expire(store)
    /\ hits' = [k \in Keys |-> TickWindow(hits[k])]
    /\ last' = NoRequest
    /\ UNCHANGED <<builder, rawEnv, fetchCall, retries, env, boot, startError, mode, storeUp, limiter, inflight, nextId, nextNonce>>

----------------------------------------------------------------------------
(* Specifications *)

\* what a key may hold when a gateway starts: nothing, or the count that
\* earlier requests of a window just begun left one below the ceiling
Preloaded(m) ==
    {NoWindow,
     [n |-> (IF m = "production" THEN ProdMax ELSE DevMax) - 1,
      left |-> TicksPerWindow]}

\* or the count of a window that has reached the ceiling, at any time of
\* the window
PreloadedAtCeiling(m) ==
    {[n |-> IF m = "production" THEN ProdMax ELSE DevMax, left |-> l] :
        l \in 1..TicksPerWindow}

StoreOf(h, ks) ==
    LET used == {k \in ks : h[k].n > 0}
        names == {StoreKey("gw1", k) : k \in used}
    IN  [nm \in names |->
            LET k == CHOOSE k \in used : StoreKey("gw1", k) = nm
            IN  [count |-> h[k].n, ttl |-> h[k].left]]

\* no call of createCspDirectives yet
NoCalls(nodeEnv) == [heap |-> <<>>, returned |-> <<>>, nodeEnv |-> nodeEnv]

InitOver(ms, ks) ==
    /\ mode \in ms
    /\ builder = NoCalls(mode)
    /\ rawEnv = BaseRaw(mode)
    /\ env = [i \in Instances |-> validateEnv(rawEnv).data]
    /\ boot = [i \in Instances |-> "starting"]
    /\ startError = [i \in Instances |-> NoError]
    /\ storeUp \in BOOLEAN
    /\ hits \in [Keys -> Preloaded(mode)]
    /\ \A k \in Keys \ ks : hits[k] = NoWindow
    /\ store = StoreOf(hits, ks)
    /\ limiter = [i \in Instances |-> "off"]
    /\ retries = [i \in Instances |-> 0]
    /\ fetchCall = NoFetch
    /\ inflight = {}
    /\ nextId = 1
    /\ nextNonce = 1
    /\ last = NoRequest

\* one gateway within one window, every kind of request
Init == InitOver(Modes, {"ipA"})

Next ==
    \/ SetupCheck("gw1")
    \/ SetupConnect("gw1")
    \/ \E o \in Origins, p \in Protocols, rt \in Routes :
            Arrive("gw1", "ipA", o, p, rt, SentWith(rt), MaxInFlight)
    \/ \E r \in inflight : StoreExec(r)
    \/ \E r \in inflight : Reply(r)
    \/ \E r \in inflight : StoreError(r)
    \/ \E r \in inflight, readOk \in BOOLEAN : ReadIndex(r, readOk)
    \/ StoreDown
    \/ StoreUp

Spec == Init /\ [][Next]_vars

\* one gateway and the clients of POST /csp-report: reports of every content
\* type, well-formed or not, from every origin
NextReport ==
    \/ SetupCheck("gw1")
    \/ SetupConnect("gw1")
    \/ \E o \in Origins, pl \in Payloads :
            Arrive("gw1", "ipA", o, "https", "report", pl, MaxInFlight)
    \/ \E r \in inflight : StoreExec(r)
    \/ \E r \in inflight : Reply(r)
    \/ \E r \in inflight : StoreError(r)
    \/ StoreDown
    \/ StoreUp

SpecReport == Init /\ [][NextReport]_vars

\* one gateway and the connection of its limiter's client to a store that
\* comes and goes
NextRetry ==
    \/ SetupCheck("gw1")
    \/ SetupConnect("gw1")
    \/ ConnectFails("gw1")
    \/ Reconnect("gw1")
    \/ Reconnected("gw1")
    \/ Arrive("gw1", "ipA", NoOrigin, "https", "asset", NoPayload, MaxInFlight)
    \/ \E r \in inflight : StoreExec(r)
    \/ \E r \in inflight : Reply(r)
    \/ \E r \in inflight : StoreError(r)
    \/ StoreDown
    \/ StoreUp

SpecRetry == Init /\ [][NextRetry]_vars

\* two gateways on one store and two client keys: requests that pass the
\* gates race on the counters, gateways stop and start again
InitShared == InitOver({"production", "development"}, Keys)

NextShared ==
    \/ \E i \in Instances : SetupCheck(i)
    \/ \E i \in Instances : SetupConnect(i)
    \/ \E i \in Instances : Stop(i)
    \/ \E i \in Instances, k \in Keys :
            Arrive(i, k, NoOrigin, "https", "report", BrowserReport, MaxRacing)
    \/ \E r \in inflight : StoreExec(r)
    \/ \E r \in inflight : Reply(r)
    \/ \E r \in inflight : StoreError(r)
    \/ StoreDown
    \/ StoreUp
    \/ Tick

SpecShared == InitShared /\ [][NextShared]_vars

\* one gateway with the progress its event loop and the store guarantee:
\* a step that is ready (a setup step, a command at a reachable store, a
\* reply, the end of a file read) is eventually taken; that a request
\* arrives or the store changes is up to the environment
Progress ==
    \/ SetupCheck("gw1")
    \/ SetupConnect("gw1")
    \/ \E r \in inflight : StoreExec(r)
    \/ \E r \in inflight : Reply(r)
    \/ \E r \in inflight : StoreError(r)
    \/ \E r \in inflight, readOk \in BOOLEAN : ReadIndex(r, readOk)

FairSpec == Init /\ [][Next]_vars /\ WF_vars(Progress)

\* one gateway serving the HTML entry document to requests that are in
\* flight together: their store round trips and file reads interleave
NextPages ==
    \/ SetupCheck("gw1")
    \/ SetupConnect("gw1")
    \/ \E k \in Keys : Arrive("gw1", k, NoOrigin, "https", "index", NoPayload, MaxRacing)
    \/ \E r \in inflight : StoreExec(r)
    \/ \E r \in inflight : Reply(r)
    \/ \E r \in inflight : StoreError(r)
    \/ \E r \in inflight, readOk \in BOOLEAN : ReadIndex(r, readOk)
    \/ StoreDown
    \/ StoreUp

SpecPages == InitShared /\ [][NextPages]_vars

\* one gateway and two client keys over several windows: the requests of
\* the keys race on the store while the windows run out
NextKeys ==
    \/ SetupCheck("gw1")
    \/ SetupConnect("gw1")
    \/ \E k \in Keys :
            Arrive("gw1", k, NoOrigin, "https", "report", BrowserReport, MaxRacing)
    \/ \E r \in inflight : StoreExec(r)
    \/ \E r \in inflight : Reply(r)
    \/ \E r \in inflight : StoreError(r)
    \/ StoreDown
    \/ StoreUp
    \/ Tick

SpecKeys == InitShared /\ [][NextKeys]_vars

\* one gateway and one client key over several windows: the key may start
\* at the ceiling, so that it is exceeded, expires and is counted anew
InitWindow ==
    /\ mode \in {"production", "development"}
    /\ builder = NoCalls(mode)
    /\ rawEnv = BaseRaw(mode)
    /\ env = [i \in Instances |-> validateEnv(rawEnv).data]
    /\ boot = [i \in Instances |-> "starting"]
    /\ startError = [i \in Instances |-> NoError]
    /\ storeUp \in BOOLEAN
    /\ hits \in [Keys -> Preloaded(mode) \cup PreloadedAtCeiling(mode)]
    /\ hits["ipB"] = NoWindow
    /\ store = StoreOf(hits, {"ipA"})
    /\ limiter = [i \in Instances |-> "off"]
    /\ retries = [i \in Instances |-> 0]
    /\ fetchCall = NoFetch
    /\ inflight = {}
    /\ nextId = 1
    /\ nextNonce = 1
    /\ last = NoRequest

NextWindow ==
    \/ SetupCheck("gw1")
    \/ SetupConnect("gw1")
    \/ Arrive("gw1", "ipA", NoOrigin, "https", "asset", NoPayload, MaxRacing)
    \/ \E r \in inflight : StoreExec(r)
    \/ \E r \in inflight : Reply(r)
    \/ \E r \in inflight : StoreError(r)
    \/ StoreDown
    \/ StoreUp
    \/ Tick

SpecWindow == InitWindow /\ [][NextWindow]_vars

\* the raw configurations a process may be started with
RawConfigs ==
    [NODE_ENV : {"development", "production", "test", "staging", UNDEFINED},
     PORT : {UNDEFINED, "3000", "65536", "3.5", "abc"},
     REDIS_URL : {<<"redis", "://", "localhost:6379">>, <<"rediss", "://", "cache:6380">>,
                  <<"http", "://", "localhost">>, <<"redis", "://">>, Absent},
     CORS_ORIGIN : {RawCorsOrigin, <<"http://", "localhost:3000">>,
                    <<"HTTPS://", "a.example">>, <<"not-a-url">>,
                    <<"https://", "a.example", COMMA>>, <<>>, Absent},
     JWT_SECRET : {Secret(MinSecretLen - 1), Secret(MinSecretLen), Absent}]

\* a process that has not been started yet, with any raw configuration
InitBoot ==
    /\ rawEnv \in RawConfigs
    /\ mode = rawEnv.NODE_ENV
    /\ builder = NoCalls(mode)
    /\ env = [i \in Instances |-> NoEnv]
    /\ boot = [i \in Instances |-> "idle"]
    /\ startError = [i \in Instances |-> NoError]
    /\ storeUp \in BOOLEAN
    /\ hits = [k \in Keys |-> NoWindow]
    /\ store = StoreOf(hits, Keys)
    /\ limiter = [i \in Instances |-> "off"]
    /\ retries = [i \in Instances |-> 0]
    /\ fetchCall = NoFetch
    /\ inflight = {}
    /\ nextId = 1
    /\ nextNonce = 1
    /\ last = NoRequest

\* the start of one gateway process, by startServer or by createServer, and
\* the first requests it serves
NextBoot ==
    \/ \E portArg \in {NoOpt, "0"} : StartServer("gw1", portArg)
    \/ CreateServer("gw1")
    \/ SetupCheck("gw1")
    \/ SetupConnect("gw1")
    \/ \E o \in {NoOrigin, <<"https://", "a.example">>} :
            Arrive("gw1", "ipA", o, "https", "asset", NoPayload, MaxInFlight)
    \/ \E r \in inflight : StoreExec(r)
    \/ \E r \in inflight : Reply(r)
    \/ \E r \in inflight : StoreError(r)
    \/ StoreDown
    \/ StoreUp

SpecBoot == InitBoot /\ [][NextBoot]_vars

\* the start of a gateway whose environment does or does not name an
\* endpoint for CSP violation reports
ReportUri == "https://csp.example.com/report"

WithReportUri(raw, uri) ==
    [NODE_ENV |-> raw.NODE_ENV, PORT |-> raw.PORT, REDIS_URL |-> raw.REDIS_URL,
     CORS_ORIGIN |-> raw.CORS_ORIGIN, JWT_SECRET |-> raw.JWT_SECRET,
     CSP_REPORT_URI |-> uri]

InitReportUri ==
    /\ mode \in Modes
    /\ \E uri \in {UNDEFINED, ReportUri} : rawEnv = WithReportUri(BaseRaw(mode), uri)
    /\ builder = NoCalls(mode)
    /\ env = [i \in Instances |-> NoEnv]
    /\ boot = [i \in Instances |-> "idle"]
    /\ startError = [i \in Instances |-> NoError]
    /\ storeUp \in BOOLEAN
    /\ hits = [k \in Keys |-> NoWindow]
    /\ store = StoreOf(hits, Keys)
    /\ limiter = [i \in Instances |-> "off"]
    /\ retries = [i \in Instances |-> 0]
    /\ fetchCall = NoFetch
    /\ inflight = {}
    /\ nextId = 1
    /\ nextNonce = 1
    /\ last = NoRequest

SpecReportUri == InitReportUri /\ [][NextBoot]_vars

\* calls of fetchWithRetry with every retries option, against a server
\* whose answers and delays are arbitrary
InitFetch ==
    /\ InitOver(Modes, {})
    /\ storeUp

NextFetch ==
    \/ \E r \in -1..MaxFetchRetries : CallFetch(r)
    \/ \E result \in FetchResults : FetchSettles(result)
    \/ TimerFires
    \/ FetchAborts

SpecFetch == InitFetch /\ [][NextFetch]_vars

\* the CSP builder, called with any nonce and options while the process
\* environment changes between the calls
InitCsp ==
    /\ InitOver(Modes, {})
    /\ storeUp

NextCsp ==
    \/ \E nonce \in 1..2, optsEnv \in Modes \cup {NoOpt},
          optsReportUri \in {NoOpt, "/csp-report"} :
            CallBuilder(nonce, optsEnv, optsReportUri)
    \/ \E v \in Modes \cup {NoOpt} : SetNodeEnv(v)

SpecCsp == InitCsp /\ [][NextCsp]_vars

----------------------------------------------------------------------------
(* Vocabulary of the properties *)

Range(f) == {f[n] : n \in DOMAIN f}

\* the step just taken wrote a response
Answered == last.status # 0

\* the limiter let the request through to the stages behind it
Passed(r) == "security" \in Range(r.trace)

\* the store ran the increment of the request
Counted(r) == r.ord > 0

\* the limiter's store operation failed and the limiter raised the error
StoreFailed(r) ==
    /\ r.trace # <<>>
    /\ Len(r.trace) >= 2
    /\ r.trace[Len(r.trace) - 1] = "limiter"
    /\ r.trace[Len(r.trace)] \in {"finalhandler", "errorHandler"}

----------------------------------------------------------------------------
(* C1: in production mode the ceiling is 100 per key and window: a request *)
(* that the store-backed limiter counted as one of the first 100 of its    *)
(* key's window is let through, and one counted after them (the 101st) is  *)
(* answered 429 with code RATE_LIMIT_EXCEEDED.                             *)
C1_CeilingInProduction ==
    (Answered /\ mode = "production" /\ Counted(last) /\ ~StoreFailed(last)) =>
        /\ last.ord <= ProdMax => Passed(last) /\ last.status \notin {429, 503}
        /\ last.ord > ProdMax =>
              /\ last.status = 429
              /\ last.body.code = "RATE_LIMIT_EXCEEDED"
              /\ ~Passed(last)

\* the 101st request of a window has been answered 429
C1_Witness ==
    /\ mode = "production"
    /\ last.ord = ProdMax + 1
    /\ last.status = 429
    /\ "Retry-After" \in last.hdrs

\* the 100th request of a window has been let through
C1_WitnessAllowed ==
    /\ mode = "production"
    /\ last.ord = ProdMax
    /\ last.status = 204

----------------------------------------------------------------------------
(* C2: increments are atomic under every interleaving of the requests of   *)
(* one key, within one gateway and across gateways: no update is lost (the *)
(* counter of a key equals the number of requests counted in its window)   *)
(* and every request the limiter lets through was counted as one of the    *)
(* first ceiling-many of its window, so that no more than the ceiling are  *)
(* let through per key and window.                                         *)
C2_AtomicIncrements ==
    /\ \A k \in Keys : Get(store, StoreKey("gw1", k)).count = hits[k].n
    /\ \A k \in Keys : Get(store, StoreKey("gw2", k)).count = hits[k].n
    /\ (Answered /\ Passed(last)) => (Counted(last) /\ last.ord <= Max)

\* two requests of one key, sent through different gateways, have both been
\* counted and wait for their replies, one on each side of the ceiling
C2_Witness ==
    \E r1, r2 \in inflight :
        /\ r1.key = r2.key
        /\ r1.inst # r2.inst
        /\ r1.pc = "reply" /\ r2.pc = "reply"
        /\ r1.count = ProdMax /\ r2.count = ProdMax + 1

----------------------------------------------------------------------------
(* C6: the counters live in the store alone: whichever gateway process     *)
(* handles a request, and whether or not it was started after the others   *)
(* counted, the count the store returns to it is the number of requests of *)
(* that key counted so far in the window by all gateways together.         *)
C6_CountersShared ==
    /\ \A r \in inflight : r.pc = "reply" => r.count = r.ord
    /\ (Answered /\ Counted(last)) => last.count = last.ord

\* gateway gw1 counted the 100th request of a key, gateway gw2 the next one
\* and answered it 429
C6_Witness ==
    /\ last.inst = "gw2"
    /\ last.count = ProdMax + 1
    /\ last.status = 429
    /\ \E r \in inflight :
          r.inst = "gw1" /\ r.key = last.key /\ r.pc = "reply" /\ r.count = ProdMax

----------------------------------------------------------------------------
----------------------------------------------------------------------------
(* C4: a gateway that started with the store reachable does not fail open  *)
(* when the store becomes unreachable: a request whose store operation     *)
(* fails is not let through, and it is answered 503 with code              *)
(* REDIS_UNAVAILABLE by a limiter that has switched to deny-all.           *)
C4_RuntimeFailClosed ==
    (Answered /\ StoreFailed(last)) =>
        /\ ~Passed(last)
        /\ last.status = 503
        /\ last.body.code = "REDIS_UNAVAILABLE"
        /\ limiter[last.inst] = "deny"

\* the part of C4 the gateway keeps: a request whose store operation failed
\* is never let through
C4_NeverFailsOpen ==
    (Answered /\ StoreFailed(last)) => (~Passed(last) /\ last.status >= 500)

(* C5: deny-all mode is not permanent: whenever the limiter is in deny-all *)
(* mode, it eventually resumes store-backed counting, unless the store is  *)
(* unreachable again.                                                      *)
C5_DenyAllEnds ==
    [](limiter["gw1"] = "deny" => <>(limiter["gw1"] = "store" \/ ~storeUp))

\* what the gateway does instead: without a restart a deny-all limiter
\* stays the limiter of its process
C5_DenyAllStays ==
    [][limiter["gw1"] = "deny" => limiter'["gw1"] = "deny"]_vars

----------------------------------------------------------------------------
\* the position of a stage in the pipeline
Rank(stage) ==
    CASE stage = "requestId" -> 1
      [] stage = "cors" -> 2
      [] stage = "https" -> 3
      [] stage = "limiter" -> 4
      [] stage = "security" -> 5
      [] stage \in {"index", "report", "static", "notFound"} -> 6
      [] OTHER -> 7

\* the stages of a request ran in pipeline order, none of them twice
InOrder(trace) ==
    \A m, n \in DOMAIN trace : m < n => Rank(trace[m]) < Rank(trace[n])

\* the stage that ended the request is the last one that ran
EndedAt(r, stage) ==
    /\ stage \in Range(r.trace)
    /\ \A n \in DOMAIN r.trace : Rank(r.trace[n]) <= Rank(stage) \/ Rank(r.trace[n]) = 7

\* the body is the error envelope
\* { success: false, error: { message, code? }, meta: { timestamp, correlationId } }
IsEnvelope(r) ==
    /\ r.body.kind = "envelope"
    /\ r.body.success = "false"
    /\ r.body.message # ""
    /\ r.body.timestamp = "iso"
    /\ r.body.cid = r.cid

(* C7: every request runs the stages in the order correlation id, CORS     *)
(* check, HTTPS enforcement, rate limiter, CSP headers, responder; a stage *)
(* that rejects or answers ends the request, so that no later stage runs;  *)
(* and a failure at any stage is rendered as the error envelope.           *)
C7_PipelineOrder ==
    Answered =>
        /\ InOrder(last.trace)
        /\ last.status = 403 => EndedAt(last, "cors")
        /\ last.status = 301 => EndedAt(last, "https")
        /\ last.status \in {429, 503} => EndedAt(last, "limiter")
        /\ last.status >= 400 => IsEnvelope(last)

\* the part of C7 the gateway keeps: the order of the stages, and that a
\* stage that rejects or answers is the last one to run
C7_StagesInOrder ==
    /\ Answered =>
          /\ InOrder(last.trace)
          /\ last.status = 403 => EndedAt(last, "cors")
          /\ last.status = 301 => EndedAt(last, "https")
          /\ last.status \in {429, 503} => EndedAt(last, "limiter")
    /\ \A r \in inflight : InOrder(r.trace)

(* C8: every request gets one correlation id before any other middleware   *)
(* runs; every response carries it as X-Correlation-Id; and the body of    *)
(* every error response names the same id in meta.correlationId.           *)
C8_CorrelationId ==
    Answered =>
        /\ last.trace[1] = "requestId"
        /\ "X-Correlation-Id" \in last.hdrs
        /\ last.xcid = last.id
        /\ last.status >= 400 => last.body.cid = last.xcid

\* the part of C8 the gateway keeps: the id is assigned first, it is on
\* every response, and an envelope that is sent names it
C8_HeaderAndEnvelope ==
    Answered =>
        /\ last.trace[1] = "requestId"
        /\ "X-Correlation-Id" \in last.hdrs
        /\ last.xcid = last.id
        /\ last.body.kind = "envelope" => last.body.cid = last.xcid

\* the configured allow-list, its entries normalized
AllowList == {<<"https://", "a.example">>, <<"https://", "b.example">>}

(* C9: the CORS gate lets through every request without an Origin header   *)
(* and every request whose Origin is an entry of the allow-list, and       *)
(* rejects every other request with 403 and a body whose error.code is     *)
(* INVALID_ORIGIN.                                                         *)
C9_CorsGate ==
    Answered =>
        /\ (last.origin = NoOrigin \/ last.origin \in AllowList) =>
              (last.status # 403 /\ "https" \in Range(last.trace))
        /\ (last.origin # NoOrigin /\ last.origin \notin AllowList) =>
              /\ last.status = 403
              /\ EndedAt(last, "cors")
              /\ last.body.code = "INVALID_ORIGIN"

\* the part of C9 the gateway keeps: whom the gate lets through, and the
\* status of a rejection
C9_GateVerdict ==
    Answered =>
        /\ (last.origin = NoOrigin \/ last.origin \in AllowList) =>
              (last.status # 403 /\ "https" \in Range(last.trace))
        /\ (last.origin # NoOrigin /\ last.origin \notin AllowList) =>
              (last.status = 403 /\ EndedAt(last, "cors"))

(* C10: every error response (403, 404, 429, 500, 503) is rendered by the  *)
(* one error renderer and has the JSON shape of the error envelope, with   *)
(* the status of its error kind.                                           *)
C10_OneRenderer ==
    (Answered /\ last.status >= 400) =>
        /\ last.renderer \in {"errorHandler", "createErrorResponse"}
        /\ IsEnvelope(last)
        /\ last.status \in {403, 404, 429, 500, 503}

\* the part of C10 the gateway keeps: the limiter's own denials (429, 503)
\* are envelopes
C10_LimiterEnvelopes ==
    (Answered /\ EndedAt(last, "limiter") /\ ~StoreFailed(last)) =>
        (last.status \in {429, 503} /\ IsEnvelope(last))

----------------------------------------------------------------------------
\* the response is the HTML entry document
ServesHtml(r) == r.status = 200 /\ r.body.kind = "html"

----------------------------------------------------------------------------
\* the headers every response is to carry
RequiredHeaders ==
    {"X-Correlation-Id", "Content-Security-Policy", "X-Frame-Options",
     "X-Content-Type-Options", "Strict-Transport-Security", "Referrer-Policy"}

(* C12: every response, on every route and whatever stage produced it (200 *)
(* HTML, static asset, 204 report, 301 redirect, 403, 404, 429, 500, 503), *)
(* carries X-Correlation-Id, Content-Security-Policy, X-Frame-Options,     *)
(* X-Content-Type-Options, Strict-Transport-Security and Referrer-Policy.  *)
C12_HeadersOnEvery ==
    Answered => RequiredHeaders \subseteq last.hdrs

\* the part of C12 the gateway keeps: X-Correlation-Id is on every response,
\* and a response of a request that got as far as securityMiddleware
\* carries all of the headers
C12_HeadersBehindLimiter ==
    Answered =>
        /\ "X-Correlation-Id" \in last.hdrs
        /\ Passed(last) => RequiredHeaders \subseteq last.hdrs
        /\ ~Passed(last) =>
              last.hdrs \cap {"X-Frame-Options", "Strict-Transport-Security",
                              "Referrer-Policy"} = {}

----------------------------------------------------------------------------
\* the request got as far as the HTTPS enforcer
ReachedEnforcer(r) == "https" \in Range(r.trace)

\* the redirect answers with the same host, path and query under https
SameUnderHttps(r) == r.location = <<"https://", Host>> \o OriginalUrl(r.route)

(* C13, as stated: in production mode every request that arrived over      *)
(* plaintext HTTP is answered with a 301 redirect to https://, the same    *)
(* host and the identical path and query, and is served no content; in     *)
(* development and test mode the enforcer never redirects and passes the   *)
(* request on.                                                             *)
C13_AsStated ==
    Answered =>
        /\ (mode = "production" /\ last.proto = "http") =>
              /\ last.status = 301
              /\ SameUnderHttps(last)
              /\ last.body = NoBody
        /\ mode # "production" =>
              (last.status # 301 /\ (ReachedEnforcer(last) => "limiter" \in Range(last.trace)))

(* C13, amended: in production mode every plaintext request that the CORS  *)
(* gate let through is answered by the enforcer with a 301 redirect to     *)
(* https://, the same host and the identical path and query, and no later  *)
(* stage runs for it; every other request that reaches the enforcer (over  *)
(* https in production, any request in development and test mode) is       *)
(* passed on to the limiter and never redirected.                          *)
C13_Redirect ==
    /\ Answered =>
          /\ (ReachedEnforcer(last) /\ mode = "production" /\ last.proto = "http") =>
                /\ last.status = 301
                /\ SameUnderHttps(last)
                /\ last.body = NoBody
                /\ EndedAt(last, "https")
          /\ (ReachedEnforcer(last) /\ ~(mode = "production" /\ last.proto = "http")) =>
                (last.status # 301 /\ "limiter" \in Range(last.trace))
          /\ ~ReachedEnforcer(last) => last.status = 403
    /\ \A r \in inflight : ~(mode = "production" /\ r.proto = "http")

\* a plaintext request for a path with a query was redirected in production
C13_Witness ==
    /\ mode = "production"
    /\ last.status = 301
    /\ last.route = "missing"
    /\ last.location = <<"https://", "www.example", "/missing", "?q=a&r=b">>

\* a plaintext request was passed on and served in development mode
C13_WitnessPassedOn ==
    mode = "development" /\ last.proto = "http" /\ last.status = 200

----------------------------------------------------------------------------
\* a report of a content type the route takes, with a well-formed body
WellFormedReport(r) ==
    /\ r.route = "report"
    /\ r.payload.ctype \in {"application/csp-report", "application/json"}
    /\ r.payload.wellFormed

(* C14: a POST to /csp-report with content type application/csp-report or  *)
(* application/json and a well-formed report body, once the gates before   *)
(* the route have let it through, is answered 204 with an empty body.      *)
C14_ReportAccepted ==
    (Answered /\ WellFormedReport(last) /\ Passed(last)) =>
        /\ last.status = 204
        /\ last.body = NoBody
        /\ "Content-Type" \notin last.hdrs

\* a report sent as application/csp-report has been answered 204
C14_Witness ==
    /\ last.status = 204
    /\ last.payload = BrowserReport
    /\ last.origin # NoOrigin

----------------------------------------------------------------------------
\* the variables whose own check of the schema fails
SchemaInvalid(raw) ==
    {f \in {"NODE_ENV", "PORT", "REDIS_URL", "CORS_ORIGIN", "JWT_SECRET"} :
        \E n \in DOMAIN SafeParseIssues(raw) : SafeParseIssues(raw)[n].path = f}

\* the production-only check fails: an origin that is not under https://
PlainOriginInProduction(raw) ==
    /\ raw.NODE_ENV = "production"
    /\ raw.CORS_ORIGIN # Absent
    /\ \E n \in DOMAIN ParseCorsOrigin(raw.CORS_ORIGIN) :
          ~StartsWithHttps(ParseCorsOrigin(raw.CORS_ORIGIN)[n])

\* every variable that violates a check
InvalidFields(raw) ==
    SchemaInvalid(raw) \cup
        (IF PlainOriginInProduction(raw) THEN {"CORS_ORIGIN"} ELSE {})

\* validation of the raw configuration failed in process gw1
ValidationFailed == startError["gw1"].kind = "Error"

(* C15: when a raw configuration violates several checks at once, the      *)
(* production-only https check among them or not, validation fails with    *)
(* one error that names every invalid variable, and for a single invalid   *)
(* variable the error names that variable.                                 *)
C15_NamesEveryField ==
    ValidationFailed => startError["gw1"].named = InvalidFields(rawEnv)

\* the part of C15 the validator keeps: every variable that fails its own
\* check of the schema is named, and a single invalid variable is named
C15_SchemaFieldsNamed ==
    ValidationFailed =>
        /\ SchemaInvalid(rawEnv) \subseteq startError["gw1"].named
        /\ startError["gw1"].named \subseteq InvalidFields(rawEnv)
        /\ startError["gw1"].named # {}
        /\ Cardinality(InvalidFields(rawEnv)) = 1 =>
              startError["gw1"].named = InvalidFields(rawEnv)

----------------------------------------------------------------------------
\* the checks of a raw configuration, one by one
ModeRecognized(raw) == raw.NODE_ENV \in Modes

PortInRange(raw) ==
    /\ raw.PORT # UNDEFINED
    /\ ~ToNumber(raw.PORT).nan
    /\ \E p \in MinPort..MaxPort : ToNumber(raw.PORT).tenths = 10 * p

\* the origins as a list: the text split at commas, the entries trimmed
OriginList(raw) == ParseCorsOrigin(raw.CORS_ORIGIN)

OriginsAbsolute(raw) ==
    /\ raw.CORS_ORIGIN # Absent
    /\ OriginList(raw) # <<>>
    /\ \A n \in DOMAIN OriginList(raw) : UrlParses(OriginList(raw)[n])

OriginsUseHttpsScheme(raw) ==
    \A n \in DOMAIN OriginList(raw) :
        OriginList(raw)[n] # <<>> /\ SchemeOf(Head(OriginList(raw)[n])) = "https"

OriginsBeginWithHttps(raw) ==
    \A n \in DOMAIN OriginList(raw) :
        OriginList(raw)[n] # <<>> /\ Head(OriginList(raw)[n]) = "https://"

StoreHasRedisScheme(raw) ==
    raw.REDIS_URL # Absent /\ Len(raw.REDIS_URL) >= 2
    /\ raw.REDIS_URL[1] = "redis" /\ raw.REDIS_URL[2] = "://"

StoreIsRedisUrl(raw) ==
    raw.REDIS_URL # Absent /\ Len(raw.REDIS_URL) > 2
    /\ raw.REDIS_URL[1] \in {"redis", "rediss"} /\ raw.REDIS_URL[2] = "://"

SecretLongEnough(raw) == raw.JWT_SECRET # Absent /\ Len(raw.JWT_SECRET) >= MinSecretLen

\* the validator has run in process gw1 and returned the configuration
ValidationPassed == env["gw1"].loaded

(* C16, as stated: validate accepts a raw configuration exactly when the   *)
(* mode is development, production or test, the port is an integer in      *)
(* [1, 65535], the CORS origins form a non-empty list of absolute URLs, in *)
(* production every origin uses the https scheme, the store connection     *)
(* string has the redis scheme and the signing secret has at least 32      *)
(* characters; every other raw configuration is rejected.                  *)
C16_AsStated ==
    LET accepts ==
            /\ ModeRecognized(rawEnv)
            /\ PortInRange(rawEnv)
            /\ OriginsAbsolute(rawEnv)
            /\ rawEnv.NODE_ENV = "production" => OriginsUseHttpsScheme(rawEnv)
            /\ StoreHasRedisScheme(rawEnv)
            /\ SecretLongEnough(rawEnv)
    IN  /\ ValidationPassed => accepts
        /\ ValidationFailed => ~accepts

(* C16, amended: validate accepts a raw configuration exactly when the     *)
(* mode is development, production or test; the port is not set (3000 is   *)
(* taken) or is an integer in [1, 65535]; the CORS origins form a          *)
(* non-empty list of absolute URLs; in production every origin begins with *)
(* the lower-case prefix https://; the store connection string is redis:// *)
(* or rediss:// followed by at least one character; and the signing secret *)
(* has at least 32 characters.  Every other raw configuration is rejected, *)
(* and an accepted one is returned with the port as a number and the       *)
(* origins as a list.                                                      *)
C16_AcceptsExactly ==
    LET accepts ==
            /\ ModeRecognized(rawEnv)
            /\ rawEnv.PORT = UNDEFINED \/ PortInRange(rawEnv)
            /\ OriginsAbsolute(rawEnv)
            /\ rawEnv.NODE_ENV = "production" => OriginsBeginWithHttps(rawEnv)
            /\ StoreIsRedisUrl(rawEnv)
            /\ SecretLongEnough(rawEnv)
    IN  /\ ValidationPassed =>
              /\ accepts
              /\ env["gw1"].NODE_ENV = rawEnv.NODE_ENV
              /\ env["gw1"].PORT \in MinPort..MaxPort
              /\ env["gw1"].CORS_ORIGIN = OriginList(rawEnv)
        /\ ValidationFailed => ~accepts
        /\ boot["gw1"] \notin {"idle", "failed"} => ValidationPassed

\* a production configuration whose origins are all under https:// has been
\* accepted
C16_Witness ==
    /\ ValidationPassed
    /\ rawEnv.NODE_ENV = "production"
    /\ Len(env["gw1"].CORS_ORIGIN) = 2
    /\ boot["gw1"] = "starting"

\* a production configuration with a plaintext origin, valid otherwise, has
\* been rejected
C16_WitnessRejected ==
    /\ ValidationFailed
    /\ rawEnv.NODE_ENV = "production"
    /\ rawEnv.CORS_ORIGIN = <<"http://", "localhost:3000">>
    /\ startError["gw1"].named = {"CORS_ORIGIN"}
    /\ SchemaInvalid(rawEnv) = {}

----------------------------------------------------------------------------
\* process gw1 accepts HTTP connections: startServer has called app.listen,
\* or createServer has returned the app to a caller that serves it
Serving == boot["gw1"] \in {"listening", "app"}

(* C17: the server never starts listening, and accepts no HTTP connection, *)
(* before the configuration has been validated successfully; when the      *)
(* validation fails, the process never listens and never handles a         *)
(* request.                                                                *)
C17_ListenAfterValidation ==
    /\ Serving => (ValidationPassed /\ validateEnv(rawEnv).ok)
    /\ (inflight # {} \/ Answered) => ValidationPassed
    /\ ~validateEnv(rawEnv).ok =>
          /\ boot["gw1"] \in {"idle", "failed"}
          /\ limiter["gw1"] = "off"
          /\ inflight = {}
          /\ ~Answered

\* startServer validated the configuration, listened and served a request
C17_Witness ==
    /\ boot["gw1"] = "listening"
    /\ last.status = 200
    /\ ValidationPassed

\* startServer was called with a configuration that does not validate: it
\* threw and the process does not listen
C17_WitnessFailed ==
    /\ boot["gw1"] = "failed"
    /\ ValidationFailed
    /\ rawEnv.JWT_SECRET = Absent

----------------------------------------------------------------------------
\* the directive set of call n of createCspDirectives, as it reads now
Returned_(n) ==
    Deref(builder.heap, builder.returned[n].addr, builder.returned[n].reportAddr)

(* C18: the CSP builder is deterministic in its arguments: two calls of    *)
(* createCspDirectives with the same nonce and the same mode (and the same *)
(* report URI) return identical directive sets, whatever the process       *)
(* environment is at either call and whatever calls came before; and a     *)
(* directive set that was returned is not changed by a later call.         *)
C18_BuilderDeterministic ==
    /\ \A m, n \in DOMAIN builder.returned :
          (/\ builder.returned[m].nonce = builder.returned[n].nonce
           /\ builder.returned[m].mode = builder.returned[n].mode
           /\ builder.returned[m].reportUri = builder.returned[n].reportUri)
          => Returned_(m) = Returned_(n)
    /\ \A n \in DOMAIN builder.returned :
          /\ Returned_(n) = builder.returned[n].value
          /\ Returned_(n) = createCspDirectives(builder.returned[n].nonce,
                                                builder.returned[n].mode,
                                                builder.returned[n].reportUri, NoOpt)

\* two calls with the same nonce and mode were made under different process
\* environments, outside production, and returned distinct arrays
C18_Witness ==
    /\ Len(builder.returned) = 2
    /\ builder.returned[1].nonce = builder.returned[2].nonce
    /\ builder.returned[1].mode = "development"
    /\ builder.returned[2].mode = "development"
    /\ builder.returned[1].reportUri = builder.returned[2].reportUri
    /\ builder.returned[1].addr.connectSrc # builder.returned[2].addr.connectSrc
    /\ builder.nodeEnv = "production"

----------------------------------------------------------------------------
\* the counter of a client key in the store, now and after the step
KeyNow(k) == Get(store, StoreKey("gw1", k))
KeyNext(k) == Get(store', StoreKey("gw1", k))

\* the state of the window of a counter
WindowState(c) ==
    IF c.count = 0 THEN "none"
    ELSE IF c.count <= Max THEN "counting" ELSE "exceeded"

(* C19: per client key the limiter follows none -> counting -> exceeded ->  *)
(* (reset): the first increment of a window sets the expiry to one window  *)
(* from now, later requests count on and do not extend it, the counter is  *)
(* gone only when its window has expired, and the next request of the key  *)
(* after that starts a new window with count 1 and is allowed.             *)
C19_WindowStateMachine ==
    [][/\ \A k \in Keys :
            \/ KeyNext(k) = KeyNow(k)
            \/ /\ WindowState(KeyNow(k)) = "none"
               /\ KeyNext(k) = [count |-> 1, ttl |-> TicksPerWindow]
            \/ /\ WindowState(KeyNow(k)) \in {"counting", "exceeded"}
               /\ KeyNext(k) = [count |-> KeyNow(k).count + 1, ttl |-> KeyNow(k).ttl]
            \/ /\ KeyNow(k).ttl > 1
               /\ KeyNext(k) = [count |-> KeyNow(k).count, ttl |-> KeyNow(k).ttl - 1]
            \/ /\ KeyNow(k).ttl = 1
               /\ KeyNext(k) = NoKey
       /\ \A r \in inflight' \ inflight :
            (r.pc = "reply" /\ r.count = 1) => hits'[r.key].left = TicksPerWindow
       /\ (last'.status # 0 /\ last'.count = 1 /\ ~StoreFailed(last')) =>
            (Passed(last') /\ last'.status # 429)
       /\ (last'.status = 429) => WindowState([count |-> last'.count]) = "exceeded"
      ]_vars

\* a request that exceeded its window is answered 429 after the window has
\* expired, when a later request of the key has already been counted as the
\* first of a new window
C19_Witness ==
    /\ last.status = 429
    /\ last.count = Max + 1
    /\ \E r \in inflight :
          /\ r.key = last.key
          /\ r.id > last.id
          /\ r.pc = "reply"
          /\ r.count = 1
    /\ hits[last.key] = [n |-> 1, left |-> TicksPerWindow]

(* C20: in every reachable state of the store every rate-limit counter key *)
(* has a time to live, no later than the end of its window, whatever the   *)
(* interleaving of increments, expiries and gateway stops.                 *)
C20_EveryKeyExpires ==
    \A name \in DOMAIN store :
        /\ store[name].count > 0
        /\ store[name].ttl \in 1..TicksPerWindow
        /\ \E k \in Keys : name = StoreKey("gw1", k) /\ store[name].ttl = hits[k].left

\* every gateway has stopped while the store held a counter that two
\* requests had incremented, and time has passed since: the counter has its
\* time to live
C20_Witness ==
    /\ \A i \in Instances : limiter[i] = "off"
    /\ \E name \in DOMAIN store :
          store[name].count = 2 /\ store[name].ttl < TicksPerWindow

----------------------------------------------------------------------------
\* the gateway has been started and takes requests with the limiter that
\* counts in the store
ServingFromStore(i) == limiter[i] = "store" /\ boot[i] \in {"listening", "app"}

(* C21: connecting to the store is retried only at startup; once the       *)
(* gateway serves traffic, a lost connection is not followed by another    *)
(* attempt to connect, and a store operation that fails puts the limiter   *)
(* into deny-all at once.                                                  *)
C21_RetryOnlyAtStartup ==
    [][/\ \A i \in Instances :
            ServingFromStore(i) => retries'[i] <= retries[i]
       /\ (last'.status # 0 /\ StoreFailed(last')) =>
            limiter'[last'.inst] = "deny"
      ]_vars

----------------------------------------------------------------------------
\* the requests the gateway is handling or has just answered
Handled == inflight \cup (IF Answered THEN {last} ELSE {})

(* C22: the nonce generator is called exactly once for every request the   *)
(* gateway handles, before any response header of the request is set, and  *)
(* no nonce serves two requests.                                           *)
C22_NonceOncePerRequest ==
    /\ \A r \in Handled : r.hdrs # {} => r.nonce # 0
    /\ Answered => last.nonce # 0
    /\ \A r1, r2 \in Handled : (r1.nonce # 0 /\ r1.nonce = r2.nonce) => r1.id = r2.id

\* what holds: at most one nonce is generated per request, each for one
\* request only
C22_NeverReused ==
    /\ nextNonce <= nextId
    /\ \A r \in Handled : r.nonce < nextNonce
    /\ \A r1, r2 \in Handled : (r1.nonce # 0 /\ r1.nonce = r2.nonce) => r1.id = r2.id

----------------------------------------------------------------------------
\* the body gives the fixed text for the message, no stack, and the
\* correlation id of the request
GenericBody(r) ==
    /\ r.body.message = "Internal server error"
    /\ ~r.body.stack
    /\ r.cid # 0
    /\ r.body.cid = r.cid

(* C23: an error body never exposes internal detail: every error answered  *)
(* with status 500 or above, and every failure that is not an HttpError    *)
(* (a rejected store command), is rendered with the fixed generic message, *)
(* never the message or stack of the underlying error, and with the        *)
(* correlation id in meta.                                                 *)
C23_NoInternalDetail ==
    (Answered /\ (last.status >= 500 \/ StoreFailed(last))) => GenericBody(last)

\* what holds: every envelope built by createErrorResponse for a status of
\* 500 or above is generic and carries the correlation id
C23_EnvelopesGeneric ==
    (Answered /\ last.body.kind = "envelope" /\ last.status >= 500) =>
        GenericBody(last)

\* the deny-all limiter has answered 503 with an envelope
C23_WitnessEnvelope ==
    /\ last.status = 503
    /\ last.body.kind = "envelope"

----------------------------------------------------------------------------
\* the WebSocket source
WebSocketSource == Tok("ws:")

\* a source list without the WebSocket source
WithoutWebSocket(list) == SelectSeq(list, LAMBDA t : t # WebSocketSource)

\* the request carries the policy securityMiddleware set for it
HasPolicy(r) == r.nonce # 0 /\ r.renderer # "finalhandler"

(* C24: the mode changes the policy in one place only: connect-src has the *)
(* WebSocket source exactly when the mode is not production, and every     *)
(* other directive, and the rest of connect-src, is the same in            *)
(* development, production and test for the same nonce; so the policy the  *)
(* gateway emits in production has no WebSocket source.                    *)
C24_ModeOnlyInConnectSrc ==
    \A r \in Handled :
        HasPolicy(r) =>
            /\ Includes(r.csp.connectSrc, WebSocketSource) <=> (mode # "production")
            /\ r.csp.reportUri = <<>>
            /\ \A m \in Modes :
                    LET other == createCspDirectives(r.nonce, m, NoOpt, NoOpt)
                    IN  /\ \A n \in DOMAIN DirectiveNames :
                                DirectiveNames[n] # "connectSrc" =>
                                    other[DirectiveNames[n]] = r.csp[DirectiveNames[n]]
                        /\ WithoutWebSocket(other.connectSrc)
                                = WithoutWebSocket(r.csp.connectSrc)
                        /\ Includes(other.connectSrc, WebSocketSource)
                                <=> (m # "production")

\* a gateway in production has served the page with its policy
C24_Witness ==
    /\ mode = "production"
    /\ last.status = 200
    /\ last.route = "index"
    /\ HasPolicy(last)
    /\ Len(last.csp.connectSrc) = 2

\* and a gateway outside production, with the WebSocket source
C24_WitnessDevelopment ==
    /\ mode = "development"
    /\ last.status = 200
    /\ HasPolicy(last)
    /\ Includes(last.csp.connectSrc, WebSocketSource)

----------------------------------------------------------------------------
\* the environment names an endpoint for violation reports
ReportUriConfigured == rawEnv.CSP_REPORT_URI # UNDEFINED

(* C25: when CSP_REPORT_URI is configured, validation keeps it and the     *)
(* policy of every response has the report-uri directive with that value;  *)
(* when it is not configured, no policy has a report-uri directive.        *)
C25_ReportUriEmitted ==
    /\ \A i \in Instances :
            (env[i].loaded /\ ReportUriConfigured) =>
                /\ "CSP_REPORT_URI" \in DOMAIN env[i]
                /\ env[i].CSP_REPORT_URI = rawEnv.CSP_REPORT_URI
    /\ \A r \in Handled :
            HasPolicy(r) =>
                r.csp.reportUri = IF ReportUriConfigured
                                  THEN <<Tok(rawEnv.CSP_REPORT_URI)>> ELSE <<>>

\* what holds: no policy the gateway emits has a report-uri directive
C25_NeverEmitted == \A r \in Handled : HasPolicy(r) => r.csp.reportUri = <<>>

\* a gateway configured with a report endpoint has answered a request
C25_WitnessConfigured ==
    /\ ReportUriConfigured
    /\ last.status = 200
    /\ HasPolicy(last)

----------------------------------------------------------------------------
\* fetch attempts made by the call so far
Attempts == Len(fetchCall.results) + (IF fetchCall.pc = "await" THEN 1 ELSE 0)

\* the attempts that have ended, all but the last, failed
EarlierFailed ==
    \A n \in 1..(Len(fetchCall.results) - 1) : fetchCall.results[n] # "ok"

(* C26: fetchWithRetry with retries = r >= 0 makes at most r + 1 fetch     *)
(* attempts; it resolves with the first response that is ok and attempts   *)
(* nothing after it; when all r + 1 attempts fail (response not ok,        *)
(* network error, timeout) it rejects with an ApiError after exactly r + 1 *)
(* attempts; it never resolves with a response that is not ok; and the     *)
(* timer of an attempt is cleared before the next attempt starts.          *)
C26_BoundedAttempts ==
    (fetchCall.pc # "idle" /\ fetchCall.retries >= 0) =>
        /\ Attempts <= fetchCall.retries + 1
        /\ EarlierFailed
        /\ fetchCall.pc = "await" =>
                /\ fetchCall.timers \subseteq {fetchCall.attempt}
                /\ fetchCall.attempt = Len(fetchCall.results)
                /\ \A n \in 1..Len(fetchCall.results) : fetchCall.results[n] # "ok"
        /\ fetchCall.pc = "done" =>
                /\ fetchCall.timers = {}
                /\ fetchCall.settled \in {"response", "ApiError"}
                /\ fetchCall.settled = "response" <=>
                        fetchCall.results[Len(fetchCall.results)] = "ok"
                /\ fetchCall.settled = "ApiError" =>
                        Attempts = fetchCall.retries + 1

\* a call with retries = 2 whose first attempt timed out and whose second
\* got a response that was not ok has resolved with the third response
C26_Witness ==
    /\ fetchCall.pc = "done"
    /\ fetchCall.retries = 2
    /\ fetchCall.results = <<"AbortError", "notOk", "ok">>
    /\ fetchCall.settled = "response"

\* a call with retries = 1 has rejected after two failed attempts
C26_WitnessRejected ==
    /\ fetchCall.pc = "done"
    /\ fetchCall.retries = 1
    /\ fetchCall.settled = "ApiError"
    /\ Len(fetchCall.results) = 2

----------------------------------------------------------------------------
\* the CORS gate rejects the request, or the HTTPS enforcer redirects it
StoppedByGate(r) == ~CorsAllows(r.inst, r.origin) \/ MustRedirect(r.proto)

(* C27: a request rejected by the CORS gate or redirected by the HTTPS     *)
(* enforcer leaves every rate-limit counter as it is; a counter changes    *)
(* only by a request that has reached the limiter, and only the counter of *)
(* that request's client key.                                              *)
C27_GatesLeaveCounters ==
    [][/\ (last'.status # 0 /\ StoppedByGate(last')) =>
            /\ store' = store
            /\ hits' = hits
            /\ last'.count = 0
            /\ last'.ord = 0
       /\ store' # store =>
            \E r \in inflight :
                /\ r.pc = "limiter"
                /\ ~StoppedByGate(r)
                /\ "limiter" \in Range(r.trace)
                /\ \A k \in Keys :
                        k # r.key => Get(store', StoreKey(r.inst, k))
                                        = Get(store, StoreKey(r.inst, k))
                /\ Get(store', StoreKey(r.inst, r.key)).count
                        = Get(store, StoreKey(r.inst, r.key)).count + 1
      ]_vars

\* a request with a disallowed origin has been answered 403 after an
\* earlier request was counted: the counter still reads 1
C27_Witness ==
    /\ last.status = 403
    /\ ~CorsAllows(last.inst, last.origin)
    /\ hits[last.key].n = 1
    /\ Get(store, StoreKey(last.inst, last.key)).count = 1

\* the same for a plaintext request redirected in production
C27_WitnessRedirected ==
    /\ last.status = 301
    /\ hits[last.key].n = 1
    /\ Get(store, StoreKey(last.inst, last.key)).count = 1

----------------------------------------------------------------------------
\* the server of process i has been returned by createServer or listens
Accepting(i) == boot[i] \in {"listening", "app"}

\* the limiter's client has its connection to the store
Connected(i) == storeUp /\ retries[i] = 0

(* C28: a server that accepts requests has the store-backed limiter with a *)
(* connected client or the deny-all limiter; when the health check         *)
(* succeeds and the connect of the limiter's client then fails,            *)
(* createServer fails, and no server without a limiter is returned.        *)
C28_LimiterConnected ==
    \A i \in Instances :
        /\ Accepting(i) =>
                \/ limiter[i] = "store" /\ Connected(i)
                \/ limiter[i] = "deny"
        /\ (limiter[i] = "connecting" /\ retries[i] > 0) => boot[i] = "failed"

\* what holds: a server that accepts requests has the store-backed limiter
\* or the deny-all limiter mounted; while the connect of the limiter's
\* client fails, createServer has not returned; no request is taken by a
\* server without a limiter
C28_LimiterMounted ==
    /\ \A i \in Instances :
            /\ Accepting(i) => limiter[i] \in {"store", "deny"}
            /\ limiter[i] \in {"off", "connecting"} => ~Accepting(i)
            /\ (limiter[i] = "connecting" /\ retries[i] > 0) =>
                    boot[i] \in {"starting", "creating"}
            /\ (limiter[i] = "deny") => retries[i] = 0
    /\ \A r \in Handled : limiter[r.inst] \in {"store", "deny"}

\* the health check succeeded, the connect of the limiter's client has
\* failed twice, and createServer has not returned
C28_Witness ==
    /\ limiter["gw1"] = "connecting"
    /\ retries["gw1"] = 2
    /\ ~storeUp
    /\ ~Accepting("gw1")

\* a serving gateway whose client has lost its connection
C28_WitnessReconnecting ==
    /\ Accepting("gw1")
    /\ limiter["gw1"] = "store"
    /\ retries["gw1"] > 0

----------------------------------------------------------------------------
\* startServer threw while it read the default of its port parameter: no
\* loadEnv of the process had run yet
FailedBeforeValidation(i) ==
    /\ boot[i] = "failed"
    /\ startError[i] = TypeError
    /\ ~env[i].loaded

(* C29: started with a valid configuration and without a port argument,   *)
(* startServer does not fail before the validation has run (and then goes  *)
(* on to listen on the configured PORT).                                   *)
C29_StartValidatesFirst ==
    \A i \in Instances :
        validateEnv(rawEnv).ok => ~FailedBeforeValidation(i)

\* what holds: a start that was given a port, or that follows a loadEnv of
\* the process, fails only with the error of the validation
C29_FailsOnlyUnvalidated ==
    \A i \in Instances :
        (boot[i] = "failed" /\ validateEnv(rawEnv).ok) =>
            FailedBeforeValidation(i)

----------------------------------------------------------------------------
\* the store counted request r in this step
CountedNow(r) ==
    /\ r \in inflight
    /\ r.pc = "limiter"
    /\ r \notin inflight'
    /\ \E c \in inflight' \ inflight : c.id = r.id /\ c.pc = "reply"

(* C30: the counters of different client keys are independent: counting a  *)
(* request of key A changes the counter of A alone, and whether a request  *)
(* of key B is let through or answered 429 depends only on the number of   *)
(* requests of B counted in B's current window.                            *)
C30_KeysIndependent ==
    [][/\ \A r \in inflight : CountedNow(r) =>
            /\ KeyNext(r.key).count = KeyNow(r.key).count + 1
            /\ \A k \in Keys \ {r.key} :
                    KeyNext(k) = KeyNow(k) /\ hits'[k] = hits[k]
       /\ \A r \in inflight \ inflight' :
            (r.pc = "reply" /\ last'.id = r.id /\ ~StoreFailed(last')) =>
                /\ last'.status = 429 <=> r.ord > Max
                /\ last'.status # 429 => Passed(last')
      ]_vars

\* a request of key ipB was counted as the first of its window and let
\* through while the counter of key ipA stands at the ceiling
C30_Witness ==
    /\ last.key = "ipB"
    /\ last.count = 1
    /\ Passed(last)
    /\ KeyNow("ipA").count = Max
    /\ hits["ipB"].n = 1

====
